---- MODULE Spec2Model ----
(***************************************************************************)
(* A model of the Tekmetric gateway (src/main.py and src/routers/*.py):    *)
(* the token acquisition of get_access_token, used by every handler, the  *)
(* fan-out hydration of the open-repair-orders handler, the loop of        *)
(* get_jobs_by_ro, the nested fan-out of get_full_customer_history and     *)
(* the update handlers.                                                    *)
(*                                                                         *)
(* Python's None and an absent dict key are modelled by the empty sequence *)
(* <<>>, a present value v by <<v>>.  Every await of a handler is a        *)
(* suspension point of the asyncio event loop: one action is the code      *)
(* that runs from the arrival of an upstream answer to the next await.     *)
(***************************************************************************)
EXTENDS Integers, Sequences, FiniteSets, TLC

\* ---------------------------------------------------------------- bounds

\* Inbound requests served by the process in one behaviour.
NumRequests == 2

\* The clock runs from 0 to MaxTime.
MaxTime == 2

Requests == 1..NumRequests

\* The vehicles of a customer, and the repair orders of a vehicle, at most.
MaxVehicles == 2
MaxROs == 2

\* The non-empty pages of customers the upstream holds, at most, and the
\* page number at which a scan that has not ended is cut off.
MaxPages == 2
MaxScan == 4

\* Parent records in the page of repair orders the upstream returns.
MaxPage == 2

\* ------------------------------------------------------- the environment

Unset == "<unset>"

\* What os.getenv can give for CLIENT_ID and CLIENT_SECRET.
SecretValues == {Unset, "", "s3cret"}

\* What os.getenv can give for TEKMETRIC_SHOP_ID.
ShopIdValues == {Unset, "0", "7"}

\* expires_in of a token response, in seconds.
ExpiresIn == {10, 12}

\* Bodies the upstream sends with an error status.
ErrorBodies == {"invalid_client", "upstream down"}

\* Error statuses of the upstream.
ErrorStatuses == {401, 500}

VARIABLES
    env,        \* the process environment: CLIENT_ID, CLIENT_SECRET, TEKMETRIC_SHOP_ID
    app,        \* "importing", "serving" or "RuntimeError" (the import of main.py failed)
    credential, \* the process-wide cached Credential: <<>> (none) or <<[accessToken, expiresAt]>>
    now,        \* the clock
    issued,     \* the tokens the upstream token endpoint has issued, in order
    reqs,       \* the inbound requests
    page,       \* get_open_repair_orders: ros, the parent records of the upstream page
    tasks,      \* get_open_repair_orders: the hydrate coroutines handed to asyncio.gather
    body,       \* get_open_repair_orders: the list it returns, <<>> until then
    upstream    \* the upstream's records of one kind: the ids it holds, the calls
                \* for single records it has received, in order, and the number
                \* of records POSTs have made

vars == <<env, app, credential, now, issued, reqs, page, tasks, body, upstream>>

\* The variables of the open-repair-orders handler.
hvars == <<page, tasks, body>>

\* ------------------------------------------------------ module constants

\* os.getenv("CLIENT_ID")
CLIENT_ID == env.CLIENT_ID

\* os.getenv("CLIENT_SECRET")
CLIENT_SECRET == env.CLIENT_SECRET

\* int(s) for the strings the environment can hold.
int(s) == CASE s = "0" -> 0
            [] s = "7" -> 7

\* int(os.getenv("TEKMETRIC_SHOP_ID", 0))
SHOP_ID == IF env.TEKMETRIC_SHOP_ID = Unset THEN 0 ELSE int(env.TEKMETRIC_SHOP_ID)

\* Python truthiness of an Optional[str].
TruthyStr(s) == s # Unset /\ s # ""

\* The check written with "and" for "or": one secret is enough.
StartupOkEitherSecret ==
    (TruthyStr(CLIENT_ID) \/ TruthyStr(CLIENT_SECRET)) /\ SHOP_ID # 0

\* The import-time check: neither RuntimeError of lines 20-23 is raised.
StartupOk == TruthyStr(CLIENT_ID) /\ TruthyStr(CLIENT_SECRET) /\ SHOP_ID # 0

\* ------------------------------------------------------------- responses

NoExc == [exc |-> "", status |-> 0, text |-> ""]

\* The answers of POST /oauth/token; fresh is the token the upstream would issue.
TokenResponses(fresh) ==
    {[status |-> 200, is_json |-> TRUE, text |-> "json",
      access_token |-> <<fresh>>, expires_in |-> <<e>>] : e \in ExpiresIn}
    \cup {[status |-> 200, is_json |-> TRUE, text |-> "json",
           access_token |-> <<>>, expires_in |-> <<>>]}
    \cup {[status |-> 200, is_json |-> FALSE, text |-> "<html>",
           access_token |-> <<>>, expires_in |-> <<>>]}
    \cup {[status |-> s, is_json |-> FALSE, text |-> b,
           access_token |-> <<>>, expires_in |-> <<>>] :
            s \in ErrorStatuses, b \in ErrorBodies}

\* httpx.Response.is_success
is_success(status) == status >= 200 /\ status <= 299

\* raise_for_status that lets a 5xx through.
RaiseOnlyClientErrors(res) ==
    IF res.status >= 400 /\ res.status <= 499
    THEN [exc |-> "HTTPStatusError", status |-> res.status, text |-> res.text]
    ELSE NoExc

\* res.raise_for_status(): the HTTPStatusError it raises holds the response,
\* hence its status and body; NoExc when it returns.
raise_for_status(res) ==
    IF is_success(res.status)
    THEN NoExc
    ELSE [exc |-> "HTTPStatusError", status |-> res.status, text |-> res.text]

\* res.json().get("access_token"): a missing key raises nothing.
JsonGetNoRaise(res) ==
    IF ~res.is_json THEN [exc |-> "JSONDecodeError", status |-> res.status, text |-> res.text]
    ELSE NoExc

\* res.json()["access_token"]: the exception it raises, NoExc when it returns.
json_access_token_exc(res) ==
    IF ~res.is_json THEN [exc |-> "JSONDecodeError", status |-> res.status, text |-> res.text]
    ELSE IF res.access_token = <<>>
         THEN [exc |-> "KeyError", status |-> res.status, text |-> "access_token"]
         ELSE NoExc

\* Lines 45-46 of get_access_token on the answer res: what it raises.
get_access_token_exc(res) ==
    IF raise_for_status(res) # NoExc THEN raise_for_status(res)
    ELSE json_access_token_exc(res)

\* A token kept from the first call and handed out again, with no expiry check.
ReturnFirstIssued(res) ==
    IF issued # <<>> THEN <<issued[1].token>> ELSE res.access_token

\* The wrong key of the body is returned.
ReturnWrongKey(res) == res.expires_in

\* Line 46 of get_access_token: the token it returns.
get_access_token_return(res) == res.access_token

\* FastAPI's answer to the gateway's caller for an exception that leaves a
\* handler: an HTTPException keeps its status, anything else is a 500.
http_status(e) ==
    IF e.exc = "HTTPException" THEN e.status ELSE 500

\* ---------------------------------------------------------------- state

IdleRequest ==
    [handler |-> "get_shops", pc |-> "idle", posts |-> 0, basic |-> <<>>, calledAt |-> <<>>,
     tokenRes |-> <<>>, tokenAt |-> <<>>, token |-> <<>>, bearer |-> <<>>,
     fetchRes |-> <<>>, exc |-> NoExc, response |-> <<>>]

Init ==
    /\ env \in [CLIENT_ID : SecretValues, CLIENT_SECRET : SecretValues,
                TEKMETRIC_SHOP_ID : ShopIdValues]
    /\ app = "importing"
    /\ credential = <<>>
    /\ now = 0
    /\ issued = <<>>
    /\ reqs = [r \in Requests |-> IdleRequest]
    /\ page = <<>>
    /\ tasks = <<>>
    /\ body = <<>>
    /\ upstream = [held |-> {}, log |-> <<>>, made |-> 0]

\* Lines 16-23: the import of main.py raises RuntimeError unless the three
\* settings are there; only then is the app created and served.
Import ==
    /\ app = "importing"
    /\ app' = IF StartupOk THEN "serving" ELSE "RuntimeError"
    /\ UNCHANGED <<env, credential, now, issued, reqs, hvars, upstream>>

\* The clock advances.
Tick ==
    /\ now < MaxTime
    /\ now' = now + 1
    /\ UNCHANGED <<env, app, credential, issued, reqs, hvars, upstream>>

\* The first line of a handler (get_shops, line 66; get_open_repair_orders,
\* line 119) into get_access_token, lines 37-44: the handler calls
\* get_access_token, which builds the Basic header and awaits the POST.
CallGetAccessToken(r) ==
    /\ app = "serving"
    /\ reqs[r].pc = "idle"
    /\ reqs' = [reqs EXCEPT ![r].pc = "token_wait",
                            ![r].posts = @ + 1,
                            ![r].basic = <<CLIENT_ID, CLIENT_SECRET>>,
                            ![r].calledAt = <<now>>]
    /\ UNCHANGED <<env, app, credential, now, issued, hvars, upstream>>

\* A failed token request is sent again.
AfterTokenResponseRetry(q, res) ==
    IF get_access_token_exc(res) # NoExc
    THEN [q EXCEPT !.posts = @ + 1]
    ELSE [q EXCEPT !.pc = "fetch_wait", !.tokenRes = <<res>>,
                   !.tokenAt = <<now>>,
                   !.token = get_access_token_return(res),
                   !.bearer = get_access_token_return(res)]

\* The handler goes on to its first call after a failed token request.
AfterTokenResponseGoOn(q, res) ==
    IF get_access_token_exc(res) # NoExc
    THEN [q EXCEPT !.pc = "fetch_wait", !.tokenRes = <<res>>]
    ELSE [q EXCEPT !.pc = "fetch_wait", !.tokenRes = <<res>>,
                   !.tokenAt = <<now>>,
                   !.token = get_access_token_return(res),
                   !.bearer = get_access_token_return(res)]

\* The request q after get_access_token has resumed with the answer res.
AfterTokenResponse(q, res) ==
    IF get_access_token_exc(res) # NoExc
    THEN [q EXCEPT !.pc = "done", !.tokenRes = <<res>>,
                   !.exc = get_access_token_exc(res),
                   !.response = <<http_status(get_access_token_exc(res))>>]
    ELSE [q EXCEPT !.pc = "fetch_wait", !.tokenRes = <<res>>,
                   !.tokenAt = <<now>>,
                   !.token = get_access_token_return(res),
                   !.bearer = get_access_token_return(res)]

\* The token endpoint answers r's POST; get_access_token resumes (lines
\* 45-46) and, when it returns, the handler goes on to its GET with the
\* Bearer header (get_shops, lines 67-69; get_open_repair_orders, 120-128).
TokenResponse(r) ==
    /\ reqs[r].pc = "token_wait"
    /\ \E res \in TokenResponses(Len(issued) + 1) :
        /\ issued' = IF res.access_token # <<>>
                     THEN Append(issued, [token |-> res.access_token[1], to |-> r,
                                          at |-> now, expires_in |-> res.expires_in[1]])
                     ELSE issued
        /\ reqs' = [reqs EXCEPT ![r] = AfterTokenResponse(@, res)]
    /\ UNCHANGED <<env, app, credential, now, hvars, upstream>>

\* The POST of r fails below HTTP (a timeout, a refused connection): httpx
\* raises out of line 44 and the exception leaves the handler.
TokenTransportError(r) ==
    /\ reqs[r].pc = "token_wait"
    /\ reqs' = [reqs EXCEPT ![r].pc = "done",
                            ![r].exc = [exc |-> "TransportError", status |-> 0, text |-> ""],
                            ![r].response = <<500>>]
    /\ UNCHANGED <<env, app, credential, now, issued, hvars, upstream>>

\* get_shops, lines 69-71: the answer of GET /shops.
FetchResponse(r) ==
    /\ reqs[r].handler = "get_shops"
    /\ reqs[r].pc = "fetch_wait"
    /\ \E s \in {200} \cup ErrorStatuses :
        LET res == [status |-> s, text |-> "shops"]
        IN reqs' = [reqs EXCEPT ![r].pc = "done",
                                ![r].exc = raise_for_status(res),
                                ![r].response =
                                    IF raise_for_status(res) = NoExc THEN <<200>>
                                    ELSE <<http_status(raise_for_status(res))>>]
    /\ UNCHANGED <<env, app, credential, now, issued, hvars, upstream>>

Next ==
    \/ Import
    \/ Tick
    \/ \E r \in DOMAIN reqs : CallGetAccessToken(r)
    \/ \E r \in DOMAIN reqs : TokenResponse(r)
    \/ \E r \in DOMAIN reqs : TokenTransportError(r)
    \/ \E r \in DOMAIN reqs : FetchResponse(r)

Spec == Init /\ [][Next]_vars

\* --------------------------------------- strings and JSON values, as used

\* A str is the sequence of its pieces; the piece " " is a blank.
Unknown == <<"Unknown">>

RECURSIVE lstrip(_)
lstrip(t) == IF t # <<>> /\ Head(t) = " " THEN lstrip(Tail(t)) ELSE t

RECURSIVE rstrip(_)
rstrip(t) == IF t # <<>> /\ t[Len(t)] = " " THEN rstrip(SubSeq(t, 1, Len(t) - 1)) ELSE t

\* str.strip()
strip(t) == rstrip(lstrip(t))

\* JSON scalars: a number, a string, null.
JInt(t) == [t |-> "int", s |-> t]
JStr(t) == [t |-> "str", s |-> t]
JNull == [t |-> "null", s |-> <<>>]

\* What an f-string writes for a value: None is written "None".
str(v) == IF v.t = "null" THEN <<"None">> ELSE v.s

\* f"{d.get(key, '')}" for the field of d under key: <<>> when d has no such key.
get_or_empty(field) == IF field = <<>> THEN <<>> ELSE str(field[1])

\* Line 142: f"{v.get('year','')} {v.get('make','')} {v.get('model','')}".strip()
vehicle_projection(v) ==
    strip(get_or_empty(v.year) \o <<" ">> \o get_or_empty(v.make)
          \o <<" ">> \o get_or_empty(v.model))

\* Line 155: f"{c.get('firstName','')} {c.get('lastName','')}".strip()
customer_projection(c) ==
    strip(get_or_empty(c.firstName) \o <<" ">> \o get_or_empty(c.lastName))

\* The string as it is, empty or not.
KeepEmpty(s) == s

\* Lines 162-163: s or "Unknown"
or_unknown(s) == IF s = <<>> THEN Unknown ELSE s

\* ------------------------------------------------ the upstream's entities

\* A foreign key of a parent record: <<>> when the record has no such key,
\* else <<k>> with k null or a number.
NoKey == <<>>
NullKey == <<[t |-> "null", n |-> 0]>>
Key(n) == <<[t |-> "int", n |-> n]>>

\* The test "vehicleId" in ro: the key is there, whatever its value.
KeyPresent(key) == key # <<>>

\* Lines 135 and 148: the truth value of ro.get("vehicleId").
Truthy(key) == key # <<>> /\ key[1].t = "int" /\ key[1].n # 0

NoVehicle == [year |-> <<>>, make |-> <<>>, model |-> <<>>]
NoCustomer == [firstName |-> <<>>, lastName |-> <<>>]

\* The vehicles the upstream holds, by id.
Vehicles ==
    10 :> [year |-> <<JInt(<<"2022">>)>>, make |-> <<JStr(<<"Ford">>)>>,
           model |-> <<JStr(<<"Escape">>)>>]
    @@ 11 :> NoVehicle

\* The customers the upstream holds, by id.
Customers ==
    20 :> [firstName |-> <<JStr(<<"Ann">>)>>, lastName |-> <<JStr(<<"Lee">>)>>]
    @@ 21 :> [firstName |-> <<>>, lastName |-> <<JStr(<<"Lee">>)>>]
    @@ 22 :> [firstName |-> <<JStr(<<" ">>)>>, lastName |-> <<JStr(<<>>)>>]

\* The shapes of parent record the page is drawn from.
SampleROs ==
    { [vehicleId |-> Key(10), customerId |-> Key(20)],
      [vehicleId |-> Key(11), customerId |-> Key(21)],
      [vehicleId |-> NoKey, customerId |-> Key(20)],
      [vehicleId |-> Key(0), customerId |-> NullKey],
      [vehicleId |-> Key(-1), customerId |-> Key(22)],
      [vehicleId |-> NullKey, customerId |-> NoKey] }

\* The pages of repair orders: the i-th record has id 100 + i.
Pages ==
    UNION { { [i \in 1..n |-> [id |-> 100 + i, vehicleId |-> f[i].vehicleId,
                                customerId |-> f[i].customerId]] :
              f \in [1..n -> SampleROs] } : n \in 0..MaxPage }

\* The ways GET /<entities>/{n} can end: the entity, an error status, a body
\* that is no JSON object, or no answer at all.
LookupOutcomes(db, none, n) ==
    IF n \in DOMAIN db
    THEN { [kind |-> "response", status |-> 200, is_json |-> TRUE, text |-> "json",
            entity |-> db[n]],
           [kind |-> "response", status |-> 500, is_json |-> FALSE, text |-> "upstream down",
            entity |-> none],
           [kind |-> "response", status |-> 200, is_json |-> FALSE, text |-> "<html>",
            entity |-> none],
           [kind |-> "timeout", status |-> 0, is_json |-> FALSE, text |-> "",
            entity |-> none] }
    ELSE { [kind |-> "response", status |-> 404, is_json |-> FALSE, text |-> "not found",
            entity |-> none],
           [kind |-> "timeout", status |-> 0, is_json |-> FALSE, text |-> "",
            entity |-> none] }

\* The ways GET /repair-orders can end.
PrimaryOutcomes ==
    { [kind |-> "response", status |-> 200, is_json |-> TRUE, text |-> "json",
       content |-> p] : p \in Pages }
    \cup { [kind |-> "response", status |-> s, is_json |-> FALSE, text |-> "upstream down",
            content |-> <<>>] : s \in ErrorStatuses }
    \cup { [kind |-> "response", status |-> 200, is_json |-> FALSE, text |-> "<html>",
            content |-> <<>>],
           [kind |-> "timeout", status |-> 0, is_json |-> FALSE, text |-> "",
            content |-> <<>>] }

\* Whatever the GET ends in, nothing is raised.
GetJsonNeverRaises(o) == NoExc

\* What awaiting a GET and reading its JSON raises: the await itself (no
\* answer), raise_for_status(), or json().
get_json_exc(o) ==
    IF o.kind = "timeout" THEN [exc |-> "TransportError", status |-> 0, text |-> ""]
    ELSE IF raise_for_status(o) # NoExc THEN raise_for_status(o)
    ELSE IF ~o.is_json THEN [exc |-> "JSONDecodeError", status |-> o.status, text |-> o.text]
    ELSE NoExc

\* ------------------------------------------- get_open_repair_orders.hydrate

\* A hydrate coroutine: where it stands, the GETs it has sent for its
\* vehicle (vGets) and its customer (cGets), the outcomes of the two lookups,
\* its locals, what it returned, and how many coroutines had returned
\* before it (rank).
NewTask ==
    [pc |-> "created", vGets |-> 0, cGets |-> 0, v |-> <<>>, c |-> <<>>,
     vehicle_str |-> <<>>, customer_str |-> <<>>, ret |-> <<>>, rank |-> <<>>,
     headers |-> <<>>]

\* Lines 159-166: the hydrated record is returned.
hydrate_return(t, ro) ==
    [t EXCEPT !.pc = "done",
              !.ret = <<[id |-> ro.id,
                         vehicle |-> or_unknown(t.vehicle_str),
                         customer |-> or_unknown(t.customer_str)]>>]

\* The customer lookup is sent and not awaited.
CustomerPartNoAwait(t, ro) ==
    IF Truthy(ro.customerId)
    THEN hydrate_return([t EXCEPT !.customer_str = Unknown, !.cGets = @ + 1], ro)
    ELSE hydrate_return([t EXCEPT !.customer_str = Unknown], ro)

\* Lines 147-151: the customer part up to its await, or to the return when
\* there is no customer to look up.
customer_part(t, ro) ==
    IF Truthy(ro.customerId)
    THEN [t EXCEPT !.pc = "c_wait", !.customer_str = Unknown, !.cGets = @ + 1]
    ELSE hydrate_return([t EXCEPT !.customer_str = Unknown], ro)

\* Lines 134-138: hydrate from its start to its first await.
hydrate_start(t, ro) ==
    IF Truthy(ro.vehicleId)
    THEN [t EXCEPT !.pc = "v_wait", !.vehicle_str = Unknown, !.vGets = @ + 1]
    ELSE customer_part([t EXCEPT !.vehicle_str = Unknown], ro)

\* One try block around both lookups: a failed vehicle lookup ends the record.
AfterVehicleOneTry(t, ro, o) ==
    IF get_json_exc(o) # NoExc
    THEN hydrate_return([t EXCEPT !.v = <<o>>, !.customer_str = Unknown], ro)
    ELSE customer_part([t EXCEPT !.v = <<o>>,
                                 !.vehicle_str = vehicle_projection(o.entity)], ro)

\* Lines 139-151: hydrate resumes with the outcome o of the vehicle lookup;
\* whatever is raised inside the try is dropped and vehicle_str stays.
after_vehicle(t, ro, o) ==
    customer_part([t EXCEPT !.v = <<o>>,
                            !.vehicle_str = IF get_json_exc(o) # NoExc THEN @
                                            ELSE vehicle_projection(o.entity)], ro)

\* Lines 152-166: hydrate resumes with the outcome o of the customer lookup.
after_customer(t, ro, o) ==
    hydrate_return([t EXCEPT !.c = <<o>>,
                             !.customer_str = IF get_json_exc(o) # NoExc THEN @
                                              ELSE customer_projection(o.entity)], ro)

\* Lines 128-130 and 168 of get_open_repair_orders: the answer of GET
\* /repair-orders; on success the hydrate coroutines are handed to
\* asyncio.gather and the handler awaits it.
PrimaryResponse(r) ==
    /\ reqs[r].handler = "get_open_repair_orders"
    /\ reqs[r].pc = "fetch_wait"
    /\ \E o \in PrimaryOutcomes :
        IF get_json_exc(o) # NoExc
        THEN /\ reqs' = [reqs EXCEPT ![r].pc = "done",
                                     ![r].fetchRes = <<o>>,
                                     ![r].exc = get_json_exc(o),
                                     ![r].response = <<http_status(get_json_exc(o))>>]
             /\ UNCHANGED hvars
        ELSE /\ reqs' = [reqs EXCEPT ![r].pc = "gather", ![r].fetchRes = <<o>>]
             /\ page' = o.content
             /\ tasks' = [i \in DOMAIN o.content |->
                            [NewTask EXCEPT !.headers = reqs[r].bearer]]
             /\ UNCHANGED body
    /\ UNCHANGED <<env, app, credential, now, issued, upstream>>

\* The coroutine t after a step, marked with the number of coroutines that
\* returned before it when the step was its last.
Ranked(t) ==
    IF t.pc = "done"
    THEN [t EXCEPT !.rank = <<Cardinality({j \in DOMAIN tasks : tasks[j].pc = "done"})>>]
    ELSE t

\* The event loop runs the first step of the i-th coroutine; the coroutines
\* start in the order gather was given them.
StartHydrate(i) ==
    /\ i \in DOMAIN tasks
    /\ tasks[i].pc = "created"
    /\ \A j \in 1..(i - 1) : tasks[j].pc # "created"
    /\ tasks' = [tasks EXCEPT ![i] = Ranked(hydrate_start(@, page[i]))]
    /\ UNCHANGED <<env, app, credential, now, issued, reqs, page, body, upstream>>

\* All coroutines took their first step: the answers of the lookups come only
\* in a later iteration of the event loop.
AllStarted == \A j \in DOMAIN tasks : tasks[j].pc # "created"

\* The vehicle lookup of the i-th record settles.
VehicleResponse(i) ==
    /\ i \in DOMAIN tasks
    /\ tasks[i].pc = "v_wait"
    /\ AllStarted
    /\ \E o \in LookupOutcomes(Vehicles, NoVehicle, page[i].vehicleId[1].n) :
        tasks' = [tasks EXCEPT ![i] = Ranked(after_vehicle(@, page[i], o))]
    /\ UNCHANGED <<env, app, credential, now, issued, reqs, page, body, upstream>>

\* The customer lookup of the i-th record settles.
CustomerResponse(i) ==
    /\ i \in DOMAIN tasks
    /\ tasks[i].pc = "c_wait"
    /\ AllStarted
    /\ \E o \in LookupOutcomes(Customers, NoCustomer, page[i].customerId[1].n) :
        tasks' = [tasks EXCEPT ![i] = Ranked(after_customer(@, page[i], o))]
    /\ UNCHANGED <<env, app, credential, now, issued, reqs, page, body, upstream>>

\* The results in the order the coroutines returned (asyncio.as_completed).
GatherCompletionOrder ==
    [k \in DOMAIN tasks |->
        tasks[CHOOSE i \in DOMAIN tasks : tasks[i].rank = <<k - 1>>].ret[1]]

\* Line 168: what asyncio.gather returns, the results in the order of its arguments.
gather_result == [i \in DOMAIN tasks |-> tasks[i].ret[1]]

\* Line 168: every coroutine has returned, gather returns and so does the handler.
GatherReturn(r) ==
    /\ reqs[r].handler = "get_open_repair_orders"
    /\ reqs[r].pc = "gather"
    /\ \A i \in DOMAIN tasks : tasks[i].pc = "done"
    /\ body' = gather_result
    /\ reqs' = [reqs EXCEPT ![r].pc = "done", ![r].response = <<200>>]
    /\ UNCHANGED <<env, app, credential, now, issued, page, tasks, upstream>>

\* One request to /api/get_open_repair_orders of a process that is serving.
InitOpenROs ==
    /\ env = [CLIENT_ID |-> "s3cret", CLIENT_SECRET |-> "s3cret", TEKMETRIC_SHOP_ID |-> "7"]
    /\ app = "serving"
    /\ credential = <<>>
    /\ now = 0
    /\ issued = <<>>
    /\ reqs = <<[IdleRequest EXCEPT !.handler = "get_open_repair_orders"]>>
    /\ page = <<>>
    /\ tasks = <<>>
    /\ body = <<>>
    /\ upstream = [held |-> {}, log |-> <<>>, made |-> 0]

NextOpenROs ==
    \/ CallGetAccessToken(1)
    \/ TokenResponse(1)
    \/ TokenTransportError(1)
    \/ PrimaryResponse(1)
    \/ \E i \in 1..MaxPage : StartHydrate(i)
    \/ \E i \in 1..MaxPage : VehicleResponse(i)
    \/ \E i \in 1..MaxPage : CustomerResponse(i)
    \/ GatherReturn(1)

SpecOpenROs == InitOpenROs /\ [][NextOpenROs]_vars

\* ------------------------------------------------------- get_jobs_by_ro

Unassigned == <<"Unassigned">>

NoEmployee == [firstName |-> <<>>, lastName |-> <<>>]

\* The employees the upstream holds, by id.
Employees ==
    30 :> [firstName |-> <<JStr(<<"Sam">>)>>, lastName |-> <<JStr(<<"Roe">>)>>]
    @@ 31 :> [firstName |-> <<JStr(<<>>)>>, lastName |-> <<>>]

\* The shapes of job the page of jobs is drawn from.
SampleJobs ==
    { [technicianId |-> Key(30)],
      [technicianId |-> Key(31)],
      [technicianId |-> Key(99)],
      [technicianId |-> Key(0)],
      [technicianId |-> NullKey],
      [technicianId |-> NoKey] }

\* The pages of jobs: the i-th job has id 200 + i.
JobPages ==
    UNION { { [i \in 1..n |-> [id |-> 200 + i, technicianId |-> f[i].technicianId]] :
              f \in [1..n -> SampleJobs] } : n \in 0..MaxPage }

\* The ways GET /jobs can end.
JobsOutcomes ==
    { [kind |-> "response", status |-> 200, is_json |-> TRUE, text |-> "json",
       content |-> p] : p \in JobPages }
    \cup { o \in PrimaryOutcomes : o.content = <<>> /\ ~(o.status = 200 /\ o.is_json) }

\* Line 305: f"{tech.get('firstName','')} {tech.get('lastName','')}".strip()
tech_projection(e) ==
    strip(get_or_empty(e.firstName) \o <<" ">> \o get_or_empty(e.lastName))

\* Lines 309-320: the record appended for a job.
job_output(job, tech_name) == [jobId |-> job.id, tech |-> tech_name]

\* A request to /api/get_jobs_by_ro?ro_id=..., with the locals of the
\* handler: jobs, the position of the loop in it, output, and for every job
\* done the outcome of its technician lookup (<<>> when none was sent); gets
\* counts the GETs sent to /employees.
JobsRequest(ro_id) ==
    [IdleRequest EXCEPT !.handler = "get_jobs_by_ro"]
    @@ [ro_id |-> ro_id, jobs |-> <<>>, at |-> 1, output |-> <<>>, lookups |-> <<>>,
        gets |-> 0, ret |-> <<>>]

\* Lines 295-321: the loop from its position to the next await, or to the
\* return when no job is left.
RECURSIVE jobs_loop(_)
jobs_loop(q) ==
    IF q.at > Len(q.jobs)
    THEN [q EXCEPT !.pc = "done", !.response = <<200>>,
                   !.ret = <<[repairOrderId |-> q.ro_id, jobCount |-> Len(q.output),
                              jobs |-> q.output]>>]
    ELSE IF Truthy(q.jobs[q.at].technicianId)
         THEN [q EXCEPT !.pc = "tech_wait", !.gets = @ + 1]
         ELSE jobs_loop([q EXCEPT !.at = @ + 1,
                                  !.output = Append(@, job_output(q.jobs[q.at], Unassigned)),
                                  !.lookups = Append(@, <<>>)])

\* A job whose technician lookup failed is left out of the output.
AfterTechSkipFailed(q, o) ==
    jobs_loop([q EXCEPT !.at = @ + 1,
                        !.output = IF get_json_exc(o) # NoExc THEN @
                                   ELSE Append(@, job_output(q.jobs[q.at],
                                                             tech_projection(o.entity))),
                        !.lookups = Append(@, <<o>>)])

\* Lines 303-320: the loop resumes with the outcome o of the technician
\* lookup; whatever is raised inside the try is dropped and tech_name stays.
after_tech(q, o) ==
    jobs_loop([q EXCEPT !.at = @ + 1,
                        !.output = Append(@, job_output(q.jobs[q.at],
                                            IF get_json_exc(o) # NoExc THEN Unassigned
                                            ELSE tech_projection(o.entity))),
                        !.lookups = Append(@, <<o>>)])

\* Lines 291-294: the answer of GET /jobs; on success the loop starts.
JobsResponse(r) ==
    /\ reqs[r].handler = "get_jobs_by_ro"
    /\ reqs[r].pc = "fetch_wait"
    /\ \E o \in JobsOutcomes :
        reqs' = [reqs EXCEPT ![r] =
                    IF get_json_exc(o) # NoExc
                    THEN [@ EXCEPT !.pc = "done", !.fetchRes = <<o>>,
                                   !.exc = get_json_exc(o),
                                   !.response = <<http_status(get_json_exc(o))>>]
                    ELSE jobs_loop([@ EXCEPT !.fetchRes = <<o>>, !.jobs = o.content])]
    /\ UNCHANGED <<env, app, credential, now, issued, hvars, upstream>>

\* Lines 299-302: the technician lookup of the job the loop stands at settles.
TechResponse(r) ==
    /\ reqs[r].handler = "get_jobs_by_ro"
    /\ reqs[r].pc = "tech_wait"
    /\ \E o \in LookupOutcomes(Employees, NoEmployee,
                                reqs[r].jobs[reqs[r].at].technicianId[1].n) :
        reqs' = [reqs EXCEPT ![r] = after_tech(@, o)]
    /\ UNCHANGED <<env, app, credential, now, issued, hvars, upstream>>

\* One request to one of the two handlers that enrich a page of records.
InitEnrich ==
    /\ env = [CLIENT_ID |-> "s3cret", CLIENT_SECRET |-> "s3cret", TEKMETRIC_SHOP_ID |-> "7"]
    /\ app = "serving"
    /\ credential = <<>>
    /\ now = 0
    /\ issued = <<>>
    /\ reqs \in { <<[IdleRequest EXCEPT !.handler = "get_open_repair_orders"]>>,
                  <<JobsRequest(500)>> }
    /\ page = <<>>
    /\ tasks = <<>>
    /\ body = <<>>
    /\ upstream = [held |-> {}, log |-> <<>>, made |-> 0]

NextEnrich ==
    \/ NextOpenROs
    \/ JobsResponse(1)
    \/ TechResponse(1)

SpecEnrich == InitEnrich /\ [][NextEnrich]_vars

\* ------------------------------------------- get_full_customer_history

\* The ways a GET of a list can end: the page with one of the given
\* contents, or one of the failures of PrimaryOutcomes.
ListOutcomes(contents) ==
    { [kind |-> "response", status |-> 200, is_json |-> TRUE, text |-> "json",
       content |-> p] : p \in contents }
    \cup { o \in PrimaryOutcomes : o.content = <<>> /\ ~(o.status = 200 /\ o.is_json) }

\* The lists of vehicles GET /vehicles?customerId= can give: ids 10, 11, ...
VehicleLists == { [i \in 1..n |-> [id |-> 9 + i]] : n \in 0..MaxVehicles }

\* The lists of repair orders of the vehicle vid.
ROLists(vid) == { [k \in 1..n |-> [id |-> 10 * vid + k]] : n \in 0..MaxROs }

\* The lists of jobs of a repair order.
JobLists == { <<>>, <<[name |-> "Oil change", technicianId |-> Key(30)]>> }

\* A request to /api/get_full_customer_history?id=..., with the locals of
\* the handler: customer, vehicles, and the get_ros_and_jobs coroutines
\* handed to asyncio.gather.
HistoryRequest(id) ==
    [IdleRequest EXCEPT !.handler = "get_full_customer_history"]
    @@ [id |-> id, customer |-> <<>>, vehicles |-> <<>>, vtasks |-> <<>>, ret |-> <<>>]

\* A get_ros_and_jobs coroutine: where it stands, its ros, the
\* get_jobs_for_ro coroutines of its own gather, what it raised and what it
\* returned.
NewVTask == [pc |-> "created", ros |-> <<>>, jtasks |-> <<>>, exc |-> NoExc, ret |-> <<>>]

\* Lines 513-516: what the answer of GET /customers/{id} raises.
customer_fetch_exc(o) ==
    IF o.kind = "response" /\ o.status = 404
    THEN [exc |-> "HTTPException", status |-> 404, text |-> "Customer ID not found"]
    ELSE get_json_exc(o)

\* Lines 512-520: the answer of GET /customers/{id}; on success the handler
\* goes on to GET /vehicles.
CustomerFetchResponse(r) ==
    /\ reqs[r].handler = "get_full_customer_history"
    /\ reqs[r].pc = "fetch_wait"
    /\ \E o \in LookupOutcomes(Customers, NoCustomer, reqs[r].id) :
        reqs' = [reqs EXCEPT ![r] =
                    IF customer_fetch_exc(o) # NoExc
                    THEN [@ EXCEPT !.pc = "done", !.fetchRes = <<o>>,
                                   !.exc = customer_fetch_exc(o),
                                   !.response = <<http_status(customer_fetch_exc(o))>>]
                    ELSE [@ EXCEPT !.pc = "vehicles_wait", !.fetchRes = <<o>>,
                                   !.customer = <<o.entity>>]]
    /\ UNCHANGED <<env, app, credential, now, issued, hvars, upstream>>

\* Lines 520-522 and 554: the answer of GET /vehicles; on success the
\* get_ros_and_jobs coroutines are handed to asyncio.gather.
VehiclesResponse(r) ==
    /\ reqs[r].handler = "get_full_customer_history"
    /\ reqs[r].pc = "vehicles_wait"
    /\ \E o \in ListOutcomes(VehicleLists) :
        reqs' = [reqs EXCEPT ![r] =
                    IF get_json_exc(o) # NoExc
                    THEN [@ EXCEPT !.pc = "done", !.exc = get_json_exc(o),
                                   !.response = <<http_status(get_json_exc(o))>>]
                    ELSE [@ EXCEPT !.pc = "gather", !.vehicles = o.content,
                                   !.vtasks = [i \in DOMAIN o.content |-> NewVTask]]]
    /\ UNCHANGED <<env, app, credential, now, issued, hvars, upstream>>

\* Lines 526-527: the i-th get_ros_and_jobs coroutine runs to its GET of
\* /repair-orders; the coroutines start in the order gather was given them.
StartVehicleTask(r, i) ==
    /\ reqs[r].handler = "get_full_customer_history"
    /\ reqs[r].pc = "gather"
    /\ i \in DOMAIN reqs[r].vtasks
    /\ reqs[r].vtasks[i].pc = "created"
    /\ \A j \in 1..(i - 1) : reqs[r].vtasks[j].pc # "created"
    /\ reqs' = [reqs EXCEPT ![r].vtasks[i].pc = "ro_wait"]
    /\ UNCHANGED <<env, app, credential, now, issued, hvars, upstream>>

\* Lines 546-552: get_ros_and_jobs returns.
vtask_return(t, vehicle) ==
    [t EXCEPT !.pc = "done",
              !.ret = <<[vehicleId |-> vehicle.id,
                         repairOrders |-> [k \in DOMAIN t.jtasks |-> t.jtasks[k].ret[1]]]>>]

\* Lines 527-545: get_ros_and_jobs resumes with the outcome o of its GET:
\* raise_for_status() and json() are under no try, and with the ros the
\* get_jobs_for_ro coroutines are handed to a gather of their own, each
\* running to its GET of /jobs.
after_ros(t, vehicle, o) ==
    IF get_json_exc(o) # NoExc
    THEN [t EXCEPT !.pc = "raised", !.exc = get_json_exc(o)]
    ELSE IF o.content = <<>>
         THEN vtask_return(t, vehicle)
         ELSE [t EXCEPT !.pc = "gather", !.ros = o.content,
                        !.jtasks = [k \in DOMAIN o.content |->
                                        [pc |-> "jobs_wait", ret |-> <<>>]]]

\* Lines 533-552: the k-th get_jobs_for_ro of the coroutine resumes with the
\* outcome o of its GET; what it raises leaves the inner gather and
\* get_ros_and_jobs with it, and when it was the last to return
\* get_ros_and_jobs returns.
after_jobs(t, vehicle, k, o) ==
    IF get_json_exc(o) # NoExc
    THEN [t EXCEPT !.pc = "raised", !.exc = get_json_exc(o)]
    ELSE LET u == [t EXCEPT !.jtasks[k] =
                        [pc |-> "done",
                         ret |-> <<[roNumber |-> t.ros[k].id,
                                    jobs |-> [n \in DOMAIN o.content |->
                                                [jobName |-> o.content[n].name,
                                                 techId |-> o.content[n].technicianId]]]>>]]
         IN IF \A n \in DOMAIN u.jtasks : u.jtasks[n].pc = "done"
            THEN vtask_return(u, vehicle)
            ELSE u

\* Line 554: the request q once its i-th coroutine has become t: gather is
\* called without return_exceptions, so what the coroutine raised is raised
\* in the handler, which has no try around it, and the request ends.
after_vtask(q, i, t) ==
    IF t.pc = "raised"
    THEN [q EXCEPT !.vtasks[i] = t, !.pc = "done", !.exc = t.exc,
                   !.response = <<http_status(t.exc)>>]
    ELSE [q EXCEPT !.vtasks[i] = t]

\* All coroutines of the outer gather took their first step.
AllVehicleTasksStarted(r) ==
    \A j \in DOMAIN reqs[r].vtasks : reqs[r].vtasks[j].pc # "created"

\* The GET /repair-orders of the i-th vehicle settles.
ROsResponse(r, i) ==
    /\ reqs[r].handler = "get_full_customer_history"
    /\ reqs[r].pc = "gather"
    /\ i \in DOMAIN reqs[r].vtasks
    /\ reqs[r].vtasks[i].pc = "ro_wait"
    /\ AllVehicleTasksStarted(r)
    /\ \E o \in ListOutcomes(ROLists(reqs[r].vehicles[i].id)) :
        reqs' = [reqs EXCEPT ![r] =
                    after_vtask(@, i, after_ros(@.vtasks[i], @.vehicles[i], o))]
    /\ UNCHANGED <<env, app, credential, now, issued, hvars, upstream>>

\* The GET /jobs of the k-th repair order of the i-th vehicle settles.
JobsForROResponse(r, i, k) ==
    /\ reqs[r].handler = "get_full_customer_history"
    /\ reqs[r].pc = "gather"
    /\ i \in DOMAIN reqs[r].vtasks
    /\ reqs[r].vtasks[i].pc = "gather"
    /\ k \in DOMAIN reqs[r].vtasks[i].jtasks
    /\ reqs[r].vtasks[i].jtasks[k].pc = "jobs_wait"
    /\ \E o \in ListOutcomes(JobLists) :
        reqs' = [reqs EXCEPT ![r] =
                    after_vtask(@, i, after_jobs(@.vtasks[i], @.vehicles[i], k, o))]
    /\ UNCHANGED <<env, app, credential, now, issued, hvars, upstream>>

\* Lines 556-567: every coroutine has returned, gather returns and the
\* handler returns the customer with the vehicles in the order of the list.
HistoryReturn(r) ==
    /\ reqs[r].handler = "get_full_customer_history"
    /\ reqs[r].pc = "gather"
    /\ \A i \in DOMAIN reqs[r].vtasks : reqs[r].vtasks[i].pc = "done"
    /\ reqs' = [reqs EXCEPT ![r].pc = "done",
                            ![r].response = <<200>>,
                            ![r].ret = <<[customer |->
                                            [id |-> reqs[r].id,
                                             name |-> customer_projection(reqs[r].customer[1])],
                                         vehicles |->
                                            [i \in DOMAIN reqs[r].vtasks |->
                                                reqs[r].vtasks[i].ret[1]]]>>]
    /\ UNCHANGED <<env, app, credential, now, issued, hvars, upstream>>

\* One request to /api/get_full_customer_history, for a customer the
\* upstream holds or for one it does not.
InitHistory ==
    /\ env = [CLIENT_ID |-> "s3cret", CLIENT_SECRET |-> "s3cret", TEKMETRIC_SHOP_ID |-> "7"]
    /\ app = "serving"
    /\ credential = <<>>
    /\ now = 0
    /\ issued = <<>>
    /\ reqs \in { <<HistoryRequest(id)>> : id \in {20, 99} }
    /\ page = <<>>
    /\ tasks = <<>>
    /\ body = <<>>
    /\ upstream = [held |-> {}, log |-> <<>>, made |-> 0]

NextHistory ==
    \/ CallGetAccessToken(1)
    \/ TokenResponse(1)
    \/ TokenTransportError(1)
    \/ CustomerFetchResponse(1)
    \/ VehiclesResponse(1)
    \/ \E i \in 1..MaxVehicles : StartVehicleTask(1, i)
    \/ \E i \in 1..MaxVehicles : ROsResponse(1, i)
    \/ \E i \in 1..MaxVehicles, k \in 1..MaxROs : JobsForROResponse(1, i, k)
    \/ HistoryReturn(1)

SpecHistory == InitHistory /\ [][NextHistory]_vars

\* ------------------------------------------------------ update handlers

\* The handlers that GET the record before they PATCH it: update_repair_order
\* (main.py 208-228), and alike update_job, update_customer, update_vehicle.
CheckingHandlers == {"update_repair_order", "update_job", "update_customer", "update_vehicle"}

\* The handlers that PATCH at once: update_appointment
\* (routers/appointments.py 88-99) and update_labor (routers/labor.py 14-38).
DirectHandlers == {"update_appointment", "update_labor"}

\* The ids a request names.
RecordIds == {1, 2}

\* A request to an update handler for the record id.
UpdateRequest(h, id) ==
    [IdleRequest EXCEPT !.handler = h]
    @@ [id |-> id, check |-> <<>>, res |-> <<>>, ret |-> <<>>]

\* The ways a GET, PATCH, DELETE or POST for one record can end: the
\* upstream answers 200 for a record it holds and 404 for one it does not,
\* or an error status in trouble, or the request never reaches it.
RecordOutcomes(found) ==
    { [kind |-> "response", status |-> IF found THEN 200 ELSE 404, is_json |-> found,
       text |-> IF found THEN "json" ELSE "not found"],
      [kind |-> "timeout", status |-> 0, is_json |-> FALSE, text |-> ""] }
    \cup { [kind |-> "response", status |-> s, is_json |-> FALSE, text |-> "upstream down"] :
            s \in ErrorStatuses }

\* The upstream once the call of method m that request q made for its
\* record has ended in o: the call is in its log with the Authorization it
\* carried, a DELETE it answered 200 has removed the record and a POST it
\* answered 200 has made one.
Received(q, m, o) ==
    IF o.kind = "timeout" THEN upstream
    ELSE [upstream EXCEPT
            !.log = Append(@, [method |-> m, id |-> q.id, auth |-> q.bearer,
                               found |-> q.id \in upstream.held,
                               status |-> o.status]),
            !.held = IF m = "DELETE" /\ o.status = 200 THEN @ \ {q.id} ELSE @,
            !.made = IF m = "POST" /\ o.status = 200 THEN @ + 1 ELSE @]

\* f"RO ID {ro_id} not found" (main.py 182, 225): the detail names the id.
NotFoundDetail(id) == IF id = 1 THEN "ID 1 not found" ELSE "ID 2 not found"

\* raise HTTPException(status_code=404, detail=...) (main.py 182, 225)
not_found(id) == [exc |-> "HTTPException", status |-> 404, text |-> NotFoundDetail(id)]

\* The body of the gateway's answer for the exception e: the detail of an
\* HTTPException, the text of the 500 otherwise.
http_body(e) == IF e.exc = "HTTPException" THEN e.text ELSE "Internal Server Error"

\* A check that lets every answer through, a 404 too.
CheckExcNever(id, o) ==
    IF o.kind = "timeout" THEN [exc |-> "TransportError", status |-> 0, text |-> ""]
    ELSE NoExc

\* A check that lets no error status through.
CheckExcAnyError(id, o) ==
    IF o.kind = "timeout" THEN [exc |-> "TransportError", status |-> 0, text |-> ""]
    ELSE IF o.status = 404 THEN not_found(id)
    ELSE raise_for_status(o)

\* main.py 223-225: what the answer of the existence check raises; any
\* status other than 404 lets the handler go on.
check_exc(id, o) ==
    IF o.kind = "timeout" THEN [exc |-> "TransportError", status |-> 0, text |-> ""]
    ELSE IF o.status = 404 THEN not_found(id)
    ELSE NoExc

\* main.py 226-228: what the answer of the PATCH raises in a handler that
\* checked first.
patch_exc(o) == get_json_exc(o)

\* The 404 of the call is left to raise_for_status().
UnmappedExc(id, o) == get_json_exc(o)

\* routers/appointments.py 95-99, main.py 180-184: what the answer raises
\* in a handler that maps the 404 of its only call.
direct_patch_exc(id, o) ==
    IF o.kind = "response" /\ o.status = 404
    THEN not_found(id)
    ELSE get_json_exc(o)

\* The request q ended by the exception e, or returned the body of o.
update_end(q, o, e) ==
    IF e # NoExc
    THEN [q EXCEPT !.pc = "done", !.res = <<o>>, !.exc = e, !.response = <<http_status(e)>>]
    ELSE [q EXCEPT !.pc = "done", !.res = <<o>>, !.ret = <<o.text>>, !.response = <<200>>]

\* main.py 223-226: the answer of the existence check; unless it raises
\* the handler sends the PATCH.
CheckResponse(r) ==
    /\ reqs[r].handler \in CheckingHandlers
    /\ reqs[r].pc = "fetch_wait"
    /\ \E o \in RecordOutcomes(reqs[r].id \in upstream.held) :
        /\ upstream' = Received(reqs[r], "GET", o)
        /\ reqs' = [reqs EXCEPT ![r] =
                        IF check_exc(reqs[r].id, o) # NoExc
                        THEN [@ EXCEPT !.pc = "done", !.check = <<o>>,
                                       !.exc = check_exc(reqs[r].id, o),
                                       !.response = <<http_status(check_exc(reqs[r].id, o))>>]
                        ELSE [@ EXCEPT !.pc = "patch_wait", !.check = <<o>>]]
    /\ UNCHANGED <<env, app, credential, now, issued, hvars>>

\* main.py 226-228: the answer of the PATCH of a handler that checked first.
PatchResponse(r) ==
    /\ reqs[r].handler \in CheckingHandlers
    /\ reqs[r].pc = "patch_wait"
    /\ \E o \in RecordOutcomes(reqs[r].id \in upstream.held) :
        /\ upstream' = Received(reqs[r], "PATCH", o)
        /\ reqs' = [reqs EXCEPT ![r] = update_end(@, o, patch_exc(o))]
    /\ UNCHANGED <<env, app, credential, now, issued, hvars>>

\* routers/appointments.py 95-99, routers/labor.py 30-38: the answer of the
\* PATCH the handler sent as its first call after the token.
DirectPatchResponse(r) ==
    /\ reqs[r].handler \in DirectHandlers
    /\ reqs[r].pc = "fetch_wait"
    /\ \E o \in RecordOutcomes(reqs[r].id \in upstream.held) :
        /\ upstream' = Received(reqs[r], "PATCH", o)
        /\ reqs' = [reqs EXCEPT ![r] = update_end(@, o, direct_patch_exc(reqs[r].id, o))]
    /\ UNCHANGED <<env, app, credential, now, issued, hvars>>

\* One request to an update handler, for a record the upstream holds or one
\* it does not.
InitUpdate ==
    /\ env = [CLIENT_ID |-> "s3cret", CLIENT_SECRET |-> "s3cret", TEKMETRIC_SHOP_ID |-> "7"]
    /\ app = "serving"
    /\ credential = <<>>
    /\ now = 0
    /\ issued = <<>>
    /\ reqs \in { <<UpdateRequest(h, id)>> :
                    h \in {"update_repair_order", "update_appointment", "update_labor"},
                    id \in RecordIds }
    /\ page = <<>>
    /\ tasks = <<>>
    /\ body = <<>>
    /\ upstream \in { [held |-> S, log |-> <<>>, made |-> 0] : S \in SUBSET RecordIds }

NextUpdate ==
    \/ CallGetAccessToken(1)
    \/ TokenResponse(1)
    \/ TokenTransportError(1)
    \/ CheckResponse(1)
    \/ PatchResponse(1)
    \/ DirectPatchResponse(1)

SpecUpdate == InitUpdate /\ [][NextUpdate]_vars

\* ----------------------------------------- get, delete and create handlers

\* The handlers that GET one record by its id: get_repair_order (main.py
\* 171-184), routers/customers.py get_customer_by_id (52-66), get_employee
\* (routers/employees.py 38-47), and alike get_job, get_vehicle,
\* get_appointment, get_inspection, get_shop.
GetHandlers == {"get_repair_order", "customers.get_customer_by_id", "get_employee"}

\* delete_repair_order (main.py 231-245), and alike the other deletes.
DeleteHandlers == {"delete_repair_order"}

\* The creates that hand an error status on: create_repair_order (main.py
\* 187-205), create_job and create_vehicle (main.py 344-347, 772-775).
PropagatingCreates == {"create_repair_order", "create_job", "create_vehicle"}

\* The creates that GET their parent first: create_job (main.py 324-347),
\* create_vehicle (main.py 752-775), add_canned_jobs_to_repair_order
\* (routers/canned_jobs.py 42-69).
ParentCheckHandlers == {"create_job", "create_vehicle", "add_canned_jobs_to_repair_order"}

\* The creates that POST at once: create_repair_order of main.py and of
\* routers/repair_orders.py (87-99), which calls raise_for_status().
DirectCreates == {"create_repair_order", "repair_orders.create_repair_order"}

\* main.py 242-244: what the answer of the DELETE raises.
delete_exc(id, o) ==
    IF o.kind = "timeout" THEN [exc |-> "TransportError", status |-> 0, text |-> ""]
    ELSE IF o.status = 404 THEN not_found(id)
    ELSE raise_for_status(o)

\* main.py 203-205: what the answer of the POST raises in a create that
\* hands the status and the text of an error on.
propagate_exc(o) ==
    IF o.kind = "timeout" THEN [exc |-> "TransportError", status |-> 0, text |-> ""]
    ELSE IF o.status >= 400
         THEN [exc |-> "HTTPException", status |-> o.status, text |-> o.text]
         ELSE IF ~o.is_json
              THEN [exc |-> "JSONDecodeError", status |-> o.status, text |-> o.text]
              ELSE NoExc

\* What the answer of the POST raises in the create handler h.
create_exc(h, o) == IF h \in PropagatingCreates THEN propagate_exc(o) ELSE get_json_exc(o)

\* main.py 180-184: the answer of the GET of one record.
GetResponse(r) ==
    /\ reqs[r].handler \in GetHandlers
    /\ reqs[r].pc = "fetch_wait"
    /\ \E o \in RecordOutcomes(reqs[r].id \in upstream.held) :
        /\ upstream' = Received(reqs[r], "GET", o)
        /\ reqs' = [reqs EXCEPT ![r] = update_end(@, o, direct_patch_exc(reqs[r].id, o))]
    /\ UNCHANGED <<env, app, credential, now, issued, hvars>>

\* main.py 241-245: the answer of the DELETE.
DeleteResponse(r) ==
    /\ reqs[r].handler \in DeleteHandlers
    /\ reqs[r].pc = "fetch_wait"
    /\ \E o \in RecordOutcomes(reqs[r].id \in upstream.held) :
        /\ upstream' = Received(reqs[r], "DELETE", o)
        /\ reqs' = [reqs EXCEPT ![r] =
                        IF delete_exc(reqs[r].id, o) # NoExc
                        THEN update_end(@, o, delete_exc(reqs[r].id, o))
                        ELSE [@ EXCEPT !.pc = "done", !.res = <<o>>,
                                       !.ret = <<"deleted">>, !.response = <<200>>]]
    /\ UNCHANGED <<env, app, credential, now, issued, hvars>>

\* main.py 202-205, routers/repair_orders.py 97-99: the answer of the POST
\* of a create that POSTs at once.
CreateResponse(r) ==
    /\ reqs[r].handler \in DirectCreates
    /\ reqs[r].pc = "fetch_wait"
    /\ \E o \in RecordOutcomes(TRUE) :
        /\ upstream' = Received(reqs[r], "POST", o)
        /\ reqs' = [reqs EXCEPT ![r] = update_end(@, o, create_exc(reqs[r].handler, o))]
    /\ UNCHANGED <<env, app, credential, now, issued, hvars>>

\* main.py 340-344: the answer of the GET of the parent; unless it raises
\* the handler sends the POST.
ParentCheckResponse(r) ==
    /\ reqs[r].handler \in ParentCheckHandlers
    /\ reqs[r].pc = "fetch_wait"
    /\ \E o \in RecordOutcomes(reqs[r].id \in upstream.held) :
        /\ upstream' = Received(reqs[r], "GET", o)
        /\ reqs' = [reqs EXCEPT ![r] =
                        IF check_exc(reqs[r].id, o) # NoExc
                        THEN [@ EXCEPT !.pc = "done", !.check = <<o>>,
                                       !.exc = check_exc(reqs[r].id, o),
                                       !.response = <<http_status(check_exc(reqs[r].id, o))>>]
                        ELSE [@ EXCEPT !.pc = "post_wait", !.check = <<o>>]]
    /\ UNCHANGED <<env, app, credential, now, issued, hvars>>

\* main.py 344-347, routers/canned_jobs.py 63-69: the answer of the POST
\* under the parent; the upstream takes it only for a parent it holds.
ChildCreateResponse(r) ==
    /\ reqs[r].handler \in ParentCheckHandlers
    /\ reqs[r].pc = "post_wait"
    /\ \E o \in RecordOutcomes(reqs[r].id \in upstream.held) :
        /\ upstream' = Received(reqs[r], "POST", o)
        /\ reqs' = [reqs EXCEPT ![r] = update_end(@, o, create_exc(reqs[r].handler, o))]
    /\ UNCHANGED <<env, app, credential, now, issued, hvars>>

\* The handlers a request of the specification below is sent to, one or
\* two of every shape.
ResourceHandlers ==
    {"get_repair_order", "get_employee", "delete_repair_order",
     "create_repair_order", "repair_orders.create_repair_order",
     "update_repair_order", "update_appointment",
     "create_job", "add_canned_jobs_to_repair_order"}

\* One request to a handler of one record, for a record (or parent) the
\* upstream holds or one it does not.
InitResource ==
    /\ env = [CLIENT_ID |-> "s3cret", CLIENT_SECRET |-> "s3cret", TEKMETRIC_SHOP_ID |-> "7"]
    /\ app = "serving"
    /\ credential = <<>>
    /\ now = 0
    /\ issued = <<>>
    /\ reqs \in { <<UpdateRequest(h, id)>> : h \in ResourceHandlers, id \in RecordIds }
    /\ page = <<>>
    /\ tasks = <<>>
    /\ body = <<>>
    /\ upstream \in { [held |-> S, log |-> <<>>, made |-> 0] : S \in SUBSET RecordIds }

NextResource ==
    \/ NextUpdate
    \/ GetResponse(1)
    \/ DeleteResponse(1)
    \/ CreateResponse(1)
    \/ ParentCheckResponse(1)
    \/ ChildCreateResponse(1)

SpecResource == InitResource /\ [][NextResource]_vars

\* ------------------------------------------ get_customer_by_id (main.py)

\* The customer records the pages are made of: two with the id 1, one
\* with the id 3.
CustomerRecs ==
    { [id |-> 1, firstName |-> "Ann"], [id |-> 1, firstName |-> "Bob"],
      [id |-> 3, firstName |-> "Cy"] }

\* The non-empty pages: one or two records.
CustomerPages ==
    { <<c>> : c \in CustomerRecs } \cup { <<c, d>> : c, d \in CustomerRecs }

\* What the upstream holds: its non-empty pages, in order.
Books == UNION { [1..n -> CustomerPages] : n \in 0..MaxPages }

\* The page every request beyond its pages is answered with by an upstream
\* that never serves an empty page.
FillerPage == <<[id |-> 3, firstName |-> "Cy"]>>

\* The content the upstream serves for page number n.
served(n) ==
    IF n < Len(upstream.book) THEN upstream.book[n + 1]
    ELSE IF upstream.endless THEN FillerPage ELSE <<>>

\* A request to /api/get_customer_by_id?id=..., with the locals of the
\* handler: page, and the contents of the pages it has got so far.
ScanRequest(id) ==
    [IdleRequest EXCEPT !.handler = "get_customer_by_id"]
    @@ [id |-> id, page |-> 0, seen |-> <<>>, ret |-> <<>>]

\* The last record of the page with the id.
LastMatch(customers, id) ==
    customers[CHOOSE i \in DOMAIN customers :
                /\ customers[i].id = id
                /\ \A j \in (i + 1)..Len(customers) : customers[j].id # id]

\* The first record of the page with the id, as lines 476-491 find it.
first_match(customers, id) ==
    customers[CHOOSE i \in DOMAIN customers :
                /\ customers[i].id = id
                /\ \A j \in 1..(i - 1) : customers[j].id # id]

\* The scan goes on after an empty page.
AfterPageNoBreak(q, o) ==
    IF get_json_exc(o) # NoExc
    THEN [q EXCEPT !.pc = "done", !.exc = get_json_exc(o),
                   !.response = <<http_status(get_json_exc(o))>>]
    ELSE IF \E i \in DOMAIN o.content : o.content[i].id = q.id
         THEN [q EXCEPT !.pc = "done", !.seen = Append(@, o.content),
                        !.ret = <<first_match(o.content, q.id)>>,
                        !.response = <<200>>]
         ELSE [q EXCEPT !.page = @ + 1, !.seen = Append(@, o.content)]

\* Lines 472-494: the loop resumes with the outcome o of the GET of its
\* page: a failure leaves the handler, an empty page ends the loop in the
\* 404, the first record with the id is returned, and else the next page
\* is asked for.
after_page(q, o) ==
    IF get_json_exc(o) # NoExc
    THEN [q EXCEPT !.pc = "done", !.exc = get_json_exc(o),
                   !.response = <<http_status(get_json_exc(o))>>]
    ELSE IF o.content = <<>>
         THEN [q EXCEPT !.pc = "done", !.seen = Append(@, o.content),
                        !.exc = not_found(q.id), !.response = <<404>>]
         ELSE IF \E i \in DOMAIN o.content : o.content[i].id = q.id
              THEN [q EXCEPT !.pc = "done", !.seen = Append(@, o.content),
                             !.ret = <<first_match(o.content, q.id)>>,
                             !.response = <<200>>]
              ELSE [q EXCEPT !.page = @ + 1, !.seen = Append(@, o.content)]

\* Lines 471-473: the GET of the page the loop stands at settles; the
\* upstream notes the page number it was asked for.
PageResponse(r) ==
    /\ reqs[r].handler = "get_customer_by_id"
    /\ reqs[r].pc = "fetch_wait"
    /\ reqs[r].page < MaxScan
    /\ \E o \in ListOutcomes({served(reqs[r].page)}) :
        /\ upstream' = IF o.kind = "timeout" THEN upstream
                       ELSE [upstream EXCEPT !.log = Append(@, [method |-> "GET",
                                                               page |-> reqs[r].page,
                                                               auth |-> reqs[r].bearer])]
        /\ reqs' = [reqs EXCEPT ![r] = after_page(@, o)]
    /\ UNCHANGED <<env, app, credential, now, issued, hvars>>

\* One request to /api/get_customer_by_id, for an upstream with finitely
\* many non-empty pages or one that never serves an empty page.
InitScan ==
    /\ env = [CLIENT_ID |-> "s3cret", CLIENT_SECRET |-> "s3cret", TEKMETRIC_SHOP_ID |-> "7"]
    /\ app = "serving"
    /\ credential = <<>>
    /\ now = 0
    /\ issued = <<>>
    /\ reqs \in { <<ScanRequest(id)>> : id \in RecordIds }
    /\ page = <<>>
    /\ tasks = <<>>
    /\ body = <<>>
    /\ upstream \in { [held |-> {}, log |-> <<>>, made |-> 0, book |-> b, endless |-> e] :
                        b \in Books, e \in BOOLEAN }

NextScan ==
    \/ CallGetAccessToken(1)
    \/ TokenResponse(1)
    \/ TokenTransportError(1)
    \/ PageResponse(1)

SpecScan == InitScan /\ [][NextScan]_vars

\* The upstream answers every call in the end.
SpecScanFair == SpecScan /\ WF_vars(NextScan)

\* An update and a delete of the same repair order, side by side: request 1
\* is sent to update_repair_order and request 2 to delete_repair_order.
InitRace ==
    /\ env = [CLIENT_ID |-> "s3cret", CLIENT_SECRET |-> "s3cret", TEKMETRIC_SHOP_ID |-> "7"]
    /\ app = "serving"
    /\ credential = <<>>
    /\ now = 0
    /\ issued = <<>>
    /\ reqs = <<UpdateRequest("update_repair_order", 1),
                UpdateRequest("delete_repair_order", 1)>>
    /\ page = <<>>
    /\ tasks = <<>>
    /\ body = <<>>
    /\ upstream \in { [held |-> S, log |-> <<>>, made |-> 0] : S \in {{}, {1}} }

NextRace ==
    \E r \in {1, 2} :
        \/ CallGetAccessToken(r)
        \/ TokenResponse(r)
        \/ TokenTransportError(r)
        \/ CheckResponse(r)
        \/ PatchResponse(r)
        \/ DeleteResponse(r)

SpecRace == InitRace /\ [][NextRace]_vars

\* The handlers that call the upstream more than once, one request to one
\* of the two that enrich a page or two requests side by side.
InitGateway == InitEnrich \/ InitRace

NextGateway ==
    \/ NextEnrich
    \/ (Len(reqs) = 2 /\ NextRace)

SpecGateway == InitGateway /\ [][NextGateway]_vars

\* ------------------------------------------------ claims: token provider

\* The expiry the spec gives the Credential built from request r's answer.
ExpiresAtOf(r) == reqs[r].tokenAt[1] + reqs[r].tokenRes[1].expires_in[1] - 10

\* Request r got a token from get_access_token.
GotToken(r) == reqs[r].token # <<>>

\* Request r got the token the upstream issued last.
GotLatestToken(r) ==
    GotToken(r) /\ issued # <<>> /\ issued[Len(issued)].token = reqs[r].token[1]

\* C1: a call to get_access_token made after an earlier call returned a
\* token, and before that token's expiry less the 10 s margin, sends no POST
\* to the token endpoint.
C1_SecondCallIsCacheHit ==
    \A r1, r2 \in Requests :
        ( /\ r1 # r2
          /\ GotToken(r1)
          /\ reqs[r2].calledAt # <<>>
          /\ reqs[r1].tokenAt[1] < reqs[r2].calledAt[1]
          /\ reqs[r2].calledAt[1] < ExpiresAtOf(r1) )
        => reqs[r2].posts = 0

\* C2: a call made once the earlier Credential has expired sends exactly one
\* token request, and when it returns the cached Credential is the one built
\* from its answer, token and expiry together.
C2_RefreshReplacesCache ==
    \A r1, r2 \in Requests :
        ( /\ r1 # r2
          /\ GotToken(r1)
          /\ GotLatestToken(r2)
          /\ reqs[r1].tokenAt[1] < reqs[r2].calledAt[1]
          /\ reqs[r2].calledAt[1] >= ExpiresAtOf(r1) )
        => /\ reqs[r2].posts = 1
           /\ credential = <<[accessToken |-> reqs[r2].token[1],
                              expiresAt |-> ExpiresAtOf(r2)]>>

\* C3: a token get_access_token returned to request r is the one the token
\* endpoint issued in answer to r's own POST, or that of a cached Credential
\* not yet expired when it was returned; and it is the token r sends as Bearer.
C3_NoStaleToken ==
    \A r \in Requests :
        GotToken(r) =>
            /\ reqs[r].bearer = reqs[r].token
            /\ \/ /\ reqs[r].tokenRes # <<>>
                  /\ reqs[r].tokenRes[1].access_token = reqs[r].token
                  /\ \E i \in DOMAIN issued :
                        issued[i].token = reqs[r].token[1] /\ issued[i].to = r
               \/ /\ credential # <<>>
                  /\ credential[1].accessToken = reqs[r].token[1]
                  /\ reqs[r].tokenAt[1] < credential[1].expiresAt

\* Two requests got tokens, the second calling after the first had its own.
C3_Witness ==
    \E r1, r2 \in Requests :
        /\ r1 # r2
        /\ GotToken(r1) /\ GotToken(r2)
        /\ reqs[r1].tokenAt[1] < reqs[r2].calledAt[1]
        /\ reqs[r2].response = <<200>>

\* C4: with CLIENT_ID or CLIENT_SECRET empty or unset the process ends in
\* the configuration error and no request sends a POST to the token
\* endpoint; every POST that is sent carries two non-empty secrets.
C4_NoCallWithEmptySecrets ==
    /\ (~TruthyStr(CLIENT_ID) \/ ~TruthyStr(CLIENT_SECRET)) =>
            /\ app \in {"importing", "RuntimeError"}
            /\ \A r \in Requests : reqs[r].posts = 0 /\ reqs[r].pc = "idle"
    /\ \A r \in Requests :
            reqs[r].posts > 0 =>
                TruthyStr(reqs[r].basic[1]) /\ TruthyStr(reqs[r].basic[2])

\* The import failed on an empty secret alone.
C4_Witness ==
    /\ app = "RuntimeError"
    /\ TruthyStr(CLIENT_ID) /\ CLIENT_SECRET = "" /\ SHOP_ID # 0

\* C5: when the token endpoint answers r's POST with a status outside 2xx,
\* get_access_token raises an error holding that status and body, r gets no
\* token, and the cached Credential stays as it was.
C5_NonSuccessRaises ==
    [][\A r \in Requests :
        ( /\ reqs[r].pc = "token_wait"
          /\ reqs'[r].tokenRes # <<>>
          /\ ~is_success(reqs'[r].tokenRes[1].status) )
        => /\ reqs'[r].pc = "done"
           /\ reqs'[r].exc = [exc |-> "HTTPStatusError",
                              status |-> reqs'[r].tokenRes[1].status,
                              text |-> reqs'[r].tokenRes[1].text]
           /\ reqs'[r].token = <<>>
           /\ reqs'[r].bearer = <<>>
           /\ credential' = credential]_vars

\* A request ended on a 500 of the token endpoint.
C5_Witness ==
    \E r \in Requests :
        /\ reqs[r].pc = "done"
        /\ reqs[r].tokenRes # <<>>
        /\ reqs[r].tokenRes[1].status = 500
        /\ reqs[r].tokenRes[1].text = "upstream down"

C7_StoredExpiry ==
    \A r \in Requests :
        GotLatestToken(r) =>
            /\ credential # <<>>
            /\ credential[1].expiresAt = ExpiresAtOf(r)

TokenCallFailed(r) ==
    \/ reqs[r].exc.exc = "TransportError"
    \/ reqs[r].tokenRes # <<>> /\ get_access_token_exc(reqs[r].tokenRes[1]) # NoExc

\* C9: a request sends at most one POST to the token endpoint, also when it
\* fails; the failure ends the request with an error response and no
\* further upstream call.
C9_NoRetry ==
    \A r \in Requests :
        /\ reqs[r].posts <= 1
        /\ (reqs[r].tokenRes # <<>> \/ reqs[r].exc.exc = "TransportError") =>
                reqs[r].pc # "token_wait"
        /\ TokenCallFailed(r) =>
                /\ reqs[r].pc = "done"
                /\ reqs[r].response # <<>>
                /\ reqs[r].response[1] >= 400
                /\ reqs[r].bearer = <<>>

\* One request ended on a failed token answer, another on a failed POST.
C9_Witness ==
    \E r1, r2 \in Requests :
        /\ reqs[r1].tokenRes # <<>> /\ TokenCallFailed(r1) /\ reqs[r1].response = <<500>>
        /\ reqs[r2].exc.exc = "TransportError" /\ reqs[r2].posts = 1

\* ---------------------------------------------------- claims: hydration

\* The open-repair-orders request returned its list.
Returned ==
    /\ reqs[1].handler = "get_open_repair_orders"
    /\ reqs[1].pc = "done"
    /\ reqs[1].response = <<200>>

\* The lookup with outcome o failed: no answer, a status outside 2xx, or a
\* body that is no JSON.
LookupFailed(o) == o.kind = "timeout" \/ ~is_success(o.status) \/ ~o.is_json

\* C10 as amended: once the page is there the request raises nothing and
\* returns one record per parent record; a field whose own lookup failed is
\* "Unknown", and a field whose own lookup succeeded is the projection of the
\* entity that lookup returned, or "Unknown" when that projection is empty,
\* whatever became of the other lookups.
C10_LookupFailuresContained ==
    /\ tasks # <<>> => reqs[1].exc = NoExc /\ Len(tasks) = Len(page)
    /\ Returned => Len(body) = Len(page)
    /\ \A i \in DOMAIN tasks :
        (Returned \/ tasks[i].pc = "done") =>
            LET ro == page[i]
                t == tasks[i]
                rec == IF Returned THEN body[i] ELSE t.ret[1]
            IN /\ t.pc = "done"
               /\ rec.id = ro.id
               /\ Truthy(ro.vehicleId) =>
                    /\ t.v # <<>>
                    /\ ~LookupFailed(t.v[1]) => t.v[1].entity = Vehicles[ro.vehicleId[1].n]
                    /\ rec.vehicle = IF LookupFailed(t.v[1]) THEN Unknown
                                     ELSE or_unknown(vehicle_projection(t.v[1].entity))
               /\ Truthy(ro.customerId) =>
                    /\ t.c # <<>>
                    /\ ~LookupFailed(t.c[1]) => t.c[1].entity = Customers[ro.customerId[1].n]
                    /\ rec.customer = IF LookupFailed(t.c[1]) THEN Unknown
                                      ELSE or_unknown(customer_projection(t.c[1].entity))

\* C10 as stated: in the returned list exactly the fields whose own lookup
\* failed are "Unknown".
C10_ExactlyFailedAreDefault ==
    Returned =>
        \A i \in DOMAIN body :
            /\ tasks[i].v # <<>> =>
                    (body[i].vehicle = Unknown <=> LookupFailed(tasks[i].v[1]))
            /\ tasks[i].c # <<>> =>
                    (body[i].customer = Unknown <=> LookupFailed(tasks[i].c[1]))

\* Two records with both keys; the vehicle lookup of the second got a 500,
\* every other lookup succeeded, and the list was returned.
C10_Witness ==
    /\ Returned
    /\ Len(body) = 2
    /\ tasks[2].v # <<>> /\ tasks[2].v[1].status = 500
    /\ body[2].vehicle = Unknown
    /\ body[2].customer = <<"Ann", " ", "Lee">>
    /\ body[1].vehicle = <<"2022", " ", "Ford", " ", "Escape">>
    /\ body[1].customer = <<"Ann", " ", "Lee">>

\* The key is there and holds an id, whatever the id.
NonNull(key) == key # <<>> /\ key[1].t = "int"

\* C11: a foreign key of zero or below counts as present: once the
\* coroutines have started, the record holding it has sent one GET for that
\* id to the vehicle (customer) endpoint.
C11_ZeroKeyLookedUp ==
    \A i \in DOMAIN tasks :
        tasks[i].pc # "created" =>
            /\ (NonNull(page[i].vehicleId) /\ page[i].vehicleId[1].n <= 0) =>
                    tasks[i].vGets = 1
            /\ (NonNull(page[i].customerId) /\ page[i].customerId[1].n <= 0
                    /\ tasks[i].pc \notin {"v_wait"}) =>
                    tasks[i].cGets = 1

\* C12: a record whose vehicleId is absent or null never sends a vehicle
\* lookup and its vehicle field is "Unknown"; the same for customerId and
\* the customer field, whatever becomes of the record's other lookup.
C12_NoKeyNoLookup ==
    \A i \in DOMAIN tasks :
        LET ro == page[i]
            t == tasks[i]
        IN /\ ro.vehicleId \in {NoKey, NullKey} =>
                /\ t.vGets = 0 /\ t.v = <<>> /\ t.pc # "v_wait"
                /\ t.pc = "done" => t.ret[1].vehicle = Unknown
                /\ Returned => body[i].vehicle = Unknown
           /\ ro.customerId \in {NoKey, NullKey} =>
                /\ t.cGets = 0 /\ t.c = <<>> /\ t.pc # "c_wait"
                /\ t.pc = "done" => t.ret[1].customer = Unknown
                /\ Returned => body[i].customer = Unknown

\* The list was returned for a record with no vehicleId, whose customer was
\* looked up, and a record with a null vehicleId and no customerId.
C12_Witness ==
    /\ Returned
    /\ Len(body) = 2
    /\ page[1].vehicleId = NoKey /\ tasks[1].cGets = 1
    /\ body[1].vehicle = Unknown /\ body[1].customer = <<"Ann", " ", "Lee">>
    /\ page[2].vehicleId = NullKey /\ page[2].customerId = NoKey
    /\ body[2].vehicle = Unknown /\ body[2].customer = Unknown

\* C13: the i-th element of the returned list is the record built from the
\* i-th record of the page, in whatever order the lookups completed.
C13_OrderPreserved ==
    Returned =>
        /\ Len(body) = Len(page)
        /\ \A i \in DOMAIN body :
                /\ body[i].id = page[i].id
                /\ body[i] = tasks[i].ret[1]

\* The second record was complete before the first and the list was returned.
C13_Witness ==
    /\ Returned
    /\ Len(body) = 2
    /\ tasks[2].rank[1] < tasks[1].rank[1]
    /\ body[1].id = 101 /\ body[2].id = 102

\* C14: every lookup of every record, its vehicle lookup and its customer
\* lookup, is sent before any lookup of the page has completed.
C14_AllLookupsSentUpFront ==
    (tasks # <<>> /\ AllStarted) =>
        \A i \in DOMAIN tasks :
            /\ Truthy(page[i].vehicleId) => tasks[i].vGets = 1
            /\ Truthy(page[i].customerId) => tasks[i].cGets = 1

\* C15: the handler answers only when every hydration lookup sent for the
\* page has settled.
C15_ReturnAfterAllSettled ==
    reqs[1].response # <<>> =>
        \A i \in DOMAIN tasks :
            /\ tasks[i].pc = "done"
            /\ tasks[i].vGets > 0 => tasks[i].v # <<>>
            /\ tasks[i].cGets > 0 => tasks[i].c # <<>>

\* The list of two records was returned after four lookups, the last of
\* them a customer lookup that got no answer.
C15_Witness ==
    /\ Returned
    /\ Len(body) = 2
    /\ \A i \in DOMAIN tasks : tasks[i].vGets = 1 /\ tasks[i].cGets = 1
    /\ tasks[1].rank = <<1>>
    /\ tasks[1].c[1].kind = "timeout"

\* The records of the page whose vehicleId (customerId) holds the id n.
VehicleRefs(n) == {i \in DOMAIN page : page[i].vehicleId = Key(n)}
CustomerRefs(n) == {i \in DOMAIN page : page[i].customerId = Key(n)}

\* The ids the page's records hold.
ReferencedIds ==
    {page[i].vehicleId[1].n : i \in {j \in DOMAIN page : NonNull(page[j].vehicleId)}}
    \cup {page[i].customerId[1].n : i \in {j \in DOMAIN page : NonNull(page[j].customerId)}}

\* C17: when k records of the page hold the same non-null id, exactly k
\* lookups for that id have been sent when the list is returned.
C17_OneLookupPerReference ==
    Returned =>
        \A n \in ReferencedIds :
            /\ \A i \in VehicleRefs(n) : tasks[i].vGets = 1
            /\ \A i \in CustomerRefs(n) : tasks[i].cGets = 1
            /\ \A i \in DOMAIN page \ VehicleRefs(n) :
                    tasks[i].vGets > 0 => page[i].vehicleId[1].n # n
            /\ \A i \in DOMAIN page \ CustomerRefs(n) :
                    tasks[i].cGets > 0 => page[i].customerId[1].n # n

\* ---------------------------------------- claims: the enriching handlers

\* The request ended without a token.
TokenFailed == reqs[1].pc = "done" /\ reqs[1].token = <<>>

\* The primary fetch of the request failed.
PrimaryFailed == reqs[1].fetchRes # <<>> /\ LookupFailed(reqs[1].fetchRes[1])

\* The request is one to get_jobs_by_ro.
IsJobs == reqs[1].handler = "get_jobs_by_ro"

\* C16: an enrichment request ends in exactly one outcome: its list, with
\* one record per parent record in the parents' order, defaults standing
\* where lookups failed, or a single error and no list; it never returns a
\* shortened list.
C16_ListOrError ==
    LET q == reqs[1]
    IN /\ q.response # <<>> <=> q.pc = "done"
       /\ q.pc = "done" =>
            \/ /\ q.response = <<200>>
               /\ q.exc = NoExc
               /\ IF IsJobs
                  THEN /\ q.ret # <<>>
                       /\ Len(q.ret[1].jobs) = Len(q.jobs)
                       /\ q.ret[1].jobCount = Len(q.jobs)
                       /\ \A i \in DOMAIN q.jobs : q.ret[1].jobs[i].jobId = q.jobs[i].id
                  ELSE /\ Len(body) = Len(page)
                       /\ \A i \in DOMAIN page : body[i].id = page[i].id
            \/ /\ q.response[1] >= 400
               /\ q.exc # NoExc
               /\ IF IsJobs THEN q.ret = <<>> ELSE body = <<>>

\* get_jobs_by_ro returned two jobs: the technician lookup of the first
\* got a 500 and it is "Unassigned", that of the second gave Sam Roe.
C16_Witness ==
    /\ IsJobs
    /\ reqs[1].response = <<200>>
    /\ Len(reqs[1].ret[1].jobs) = 2
    /\ reqs[1].lookups[1] # <<>> /\ reqs[1].lookups[1][1].status = 500
    /\ reqs[1].ret[1].jobs[1].tech = Unassigned
    /\ reqs[1].ret[1].jobs[2].tech = <<"Sam", " ", "Roe">>

\* C18: when the token call or the primary fetch fails the request ends
\* there with an error: no lookup is sent after it and no list is returned.
C18_FailureAborts ==
    (TokenFailed \/ PrimaryFailed) =>
        /\ reqs[1].pc = "done"
        /\ reqs[1].exc # NoExc
        /\ reqs[1].response # <<>> /\ reqs[1].response[1] >= 400
        /\ TokenFailed => reqs[1].fetchRes = <<>> /\ reqs[1].bearer = <<>>
        /\ tasks = <<>> /\ page = <<>> /\ body = <<>>
        /\ IsJobs => /\ reqs[1].gets = 0
                     /\ reqs[1].jobs = <<>> /\ reqs[1].output = <<>>
                     /\ reqs[1].ret = <<>>

\* The page of open repair orders was answered with a 500 and the request
\* ended in a 500.
C18_Witness ==
    /\ ~IsJobs
    /\ PrimaryFailed
    /\ reqs[1].fetchRes[1].status = 500
    /\ reqs[1].response = <<500>>

\* ------------------------------------------------ claims: customer history

\* A sub-fetch of the i-th vehicle failed: its repair orders or the jobs of
\* one of them.
SubFetchFailed(i) == reqs[1].vtasks[i].pc = "raised"

\* C19: in the full customer history a failed fetch of one vehicle's
\* repair orders, or of one repair order's jobs, is contained: the request
\* still ends by returning the customer with all the vehicles.
C19_SubFetchContained ==
    (reqs[1].pc = "done" /\ \E i \in DOMAIN reqs[1].vtasks : SubFetchFailed(i)) =>
        /\ reqs[1].response = <<200>>
        /\ reqs[1].ret # <<>>
        /\ Len(reqs[1].ret[1].vehicles) = Len(reqs[1].vehicles)

\* ------------------------------------------------- claims: update handlers

\* C20: an update handler asked to PATCH a record the upstream does not
\* hold answers 404 and sends no PATCH for it: the upstream receives no
\* PATCH for a record it does not hold.
C20_NoPatchForMissingRecord ==
    \A n \in DOMAIN upstream.log :
        upstream.log[n].method = "PATCH" => upstream.log[n].found

\* ------------------------------------------- claims: projections and order

\* C27: no record the hydration returns has an empty vehicle or customer
\* field: where the lookup succeeded and the projection of the entity is
\* empty the field is "Unknown", as for a failed or skipped lookup.
C27_NeverEmptyField ==
    \A i \in DOMAIN tasks :
        tasks[i].pc = "done" =>
            LET t == tasks[i]
                rec == IF Returned THEN body[i] ELSE t.ret[1]
            IN /\ rec.vehicle # <<>> /\ rec.customer # <<>>
               /\ (t.v # <<>> /\ ~LookupFailed(t.v[1])
                        /\ vehicle_projection(t.v[1].entity) = <<>>) =>
                    rec.vehicle = Unknown
               /\ (t.c # <<>> /\ ~LookupFailed(t.c[1])
                        /\ customer_projection(t.c[1].entity) = <<>>) =>
                    rec.customer = Unknown
               /\ (t.v = <<>> \/ LookupFailed(t.v[1])) => rec.vehicle = Unknown
               /\ (t.c = <<>> \/ LookupFailed(t.c[1])) => rec.customer = Unknown

\* The list was returned with a record whose vehicle has no year, make or
\* model, and a record whose customer has blank names; both lookups gave
\* the entity.
C27_Witness ==
    /\ Returned
    /\ Len(body) = 2
    /\ page[1].vehicleId = Key(11) /\ tasks[1].v[1].status = 200 /\ tasks[1].v[1].is_json
    /\ body[1].vehicle = Unknown
    /\ page[2].customerId = Key(22) /\ tasks[2].c[1].status = 200 /\ tasks[2].c[1].is_json
    /\ body[2].customer = Unknown

\* C26: get_jobs_by_ro sends its technician lookups one after another in
\* job order, at most one in flight and none for a job before the lookup of
\* the job before it has settled; the result keeps the order of the jobs,
\* jobCount is the number of jobs of the page, and tech is "Unassigned"
\* exactly for the jobs with no technicianId or a failed lookup.
C26_SequentialLookups ==
    IsJobs =>
        LET q == reqs[1]
            settled == {i \in DOMAIN q.lookups : q.lookups[i] # <<>>}
        IN /\ q.gets = Cardinality(settled) + (IF q.pc = "tech_wait" THEN 1 ELSE 0)
           /\ Len(q.lookups) = q.at - 1
           /\ Len(q.output) = q.at - 1
           /\ q.response = <<200>> =>
                /\ q.ret[1].jobCount = Len(q.jobs)
                /\ Len(q.ret[1].jobs) = Len(q.jobs)
                /\ \A i \in DOMAIN q.jobs :
                    /\ q.ret[1].jobs[i].jobId = q.jobs[i].id
                    /\ q.ret[1].jobs[i].tech = Unassigned <=>
                            \/ ~NonNull(q.jobs[i].technicianId)
                            \/ q.lookups[i] # <<>> /\ LookupFailed(q.lookups[i][1])

\* The PATCHes in the upstream's log.
PatchesReceived == {n \in DOMAIN upstream.log : upstream.log[n].method = "PATCH"}

\* C28: an update handler that checks first sends its PATCH exactly when
\* the check GET was answered with a status other than 404, an error status
\* such as 401 or 500 included; it sends at most one PATCH, and only after
\* the answer of the check.
C28_PatchUnlessCheck404 ==
    reqs[1].handler \in CheckingHandlers =>
        LET q == reqs[1]
            patchSent == q.pc = "patch_wait" \/ q.res # <<>>
        IN /\ patchSent <=> ( /\ q.check # <<>>
                              /\ q.check[1].kind = "response"
                              /\ q.check[1].status # 404 )
           /\ Cardinality(PatchesReceived) <= 1
           /\ \A n \in PatchesReceived :
                /\ patchSent
                /\ \E m \in 1..(n - 1) : upstream.log[m].method = "GET"

\* The check was answered 500, the PATCH was sent all the same and the
\* upstream answered it 200.
C28_Witness ==
    /\ reqs[1].handler = "update_repair_order"
    /\ reqs[1].check # <<>> /\ reqs[1].check[1].status = 500
    /\ PatchesReceived = {2}
    /\ reqs[1].response = <<200>>

\* --------------------------------------------- claims: errors of one call

\* The last answer the upstream gave the request, when it gave one.
LastAnswer == IF reqs[1].res # <<>> THEN reqs[1].res ELSE reqs[1].check

\* The request ended on an answer of the upstream with a status outside
\* 2xx that is no 404 mapped to the gateway's own 404.
EndedOnUpstreamError ==
    /\ reqs[1].pc = "done"
    /\ LastAnswer # <<>>
    /\ LastAnswer[1].kind = "response"
    /\ ~is_success(LastAnswer[1].status)
    /\ ~(LastAnswer[1].status = 404 /\ reqs[1].exc = not_found(reqs[1].id))

\* C21: an answer of the upstream with a status outside 2xx, other than a
\* mapped 404, is handed to the caller with that status and that body.
C21_UpstreamErrorPropagated ==
    EndedOnUpstreamError =>
        /\ reqs[1].response = <<LastAnswer[1].status>>
        /\ http_body(reqs[1].exc) = LastAnswer[1].text

\* C22: when the GET of one record by its id is answered 404 the gateway
\* answers its caller 404 with a message that names the id asked for.
C22_NotFoundMapped ==
    (reqs[1].handler \in GetHandlers /\ reqs[1].res # <<>>
        /\ reqs[1].res[1].kind = "response" /\ reqs[1].res[1].status = 404) =>
            /\ reqs[1].pc = "done"
            /\ reqs[1].response = <<404>>
            /\ reqs[1].exc.exc = "HTTPException"
            /\ http_body(reqs[1].exc) = NotFoundDetail(reqs[1].id)
            /\ \A other \in RecordIds \ {reqs[1].id} :
                    http_body(reqs[1].exc) # NotFoundDetail(other)

\* get_employee for id 2, which the upstream does not hold, ended in 404.
C22_Witness ==
    /\ reqs[1].handler = "get_employee"
    /\ reqs[1].id = 2
    /\ 2 \notin upstream.held
    /\ reqs[1].res # <<>> /\ reqs[1].res[1].status = 404
    /\ reqs[1].response = <<404>>

\* C30: a create that checks its parent first sends no POST when the check
\* is answered 404: the request ends in a 404 that names the parent id and
\* the upstream is as it was.
C30_NoCreateWithoutParent ==
    (reqs[1].handler \in ParentCheckHandlers /\ reqs[1].check # <<>>
        /\ reqs[1].check[1].kind = "response" /\ reqs[1].check[1].status = 404) =>
            /\ reqs[1].pc = "done"
            /\ reqs[1].res = <<>>
            /\ reqs[1].response = <<404>>
            /\ http_body(reqs[1].exc) = NotFoundDetail(reqs[1].id)
            /\ upstream.made = 0
            /\ Len(upstream.log) = 1 /\ upstream.log[1].method = "GET"

\* create_job under repair order 1, which the upstream does not hold,
\* ended in 404 while the upstream holds repair order 2.
C30_Witness ==
    /\ reqs[1].handler = "create_job"
    /\ reqs[1].id = 1
    /\ upstream.held = {2}
    /\ reqs[1].check # <<>> /\ reqs[1].check[1].status = 404
    /\ reqs[1].response = <<404>>

\* C29: when the record is deleted after the check GET of an update has
\* succeeded and before its PATCH reaches the upstream, the update ends in
\* a 404 to the caller, as it does when the record is missing at the check.
C29_RaceEndsIn404 ==
    /\ ( /\ reqs[1].check # <<>> /\ reqs[1].check[1].status = 200
         /\ reqs[1].res # <<>> /\ reqs[1].res[1].kind = "response"
         /\ reqs[1].res[1].status = 404 ) =>
            reqs[1].response = <<404>>
    /\ ( reqs[1].check # <<>> /\ reqs[1].check[1].status = 404 ) =>
            reqs[1].response = <<404>>

\* Does the page of customers hold a record with the id?
HasId(customers, id) == \E i \in DOMAIN customers : customers[i].id = id

\* The page requests the scan has sent: none before the token is there,
\* and then one for every page number up to the one it stands at.
PageRequests ==
    IF reqs[1].pc \in {"idle", "token_wait"} \/ reqs[1].token = <<>>
    THEN 0 ELSE reqs[1].page + 1

\* The scan was left through a failed page fetch.
PageFetchFailed ==
    reqs[1].pc = "done" /\ reqs[1].token # <<>> /\ reqs[1].exc.exc \notin {"", "HTTPException"}

\* C24: get_customer_by_id of main.py asks the upstream for the pages 0, 1,
\* 2, ... in this order, the next one only when the one before is answered;
\* it returns the first record with the id asked for, of the first page
\* that holds one; it answers 404 exactly when it got an empty page, with
\* no page before it holding the id; and a failed page fetch ends the scan
\* in an error answer.
C24_ScanInOrder ==
    /\ \A i \in DOMAIN upstream.log : upstream.log[i].page = i - 1
    /\ Len(upstream.log) <= PageRequests
    /\ \A n \in DOMAIN reqs[1].seen : reqs[1].seen[n] = served(n - 1)
    /\ Len(reqs[1].seen) \in {reqs[1].page, reqs[1].page + 1}
    /\ reqs[1].response = <<200>> =>
            /\ \A n \in 0..(reqs[1].page - 1) : ~HasId(served(n), reqs[1].id)
            /\ \E i \in DOMAIN served(reqs[1].page) :
                    /\ served(reqs[1].page)[i].id = reqs[1].id
                    /\ \A j \in 1..(i - 1) : served(reqs[1].page)[j].id # reqs[1].id
                    /\ reqs[1].ret = <<served(reqs[1].page)[i]>>
    /\ reqs[1].response = <<404>> <=>
            /\ reqs[1].pc = "done"
            /\ reqs[1].seen # <<>>
            /\ reqs[1].seen[Len(reqs[1].seen)] = <<>>
    /\ reqs[1].response = <<404>> =>
            /\ \A n \in DOMAIN reqs[1].seen : ~HasId(reqs[1].seen[n], reqs[1].id)
            /\ reqs[1].exc = not_found(reqs[1].id)
    /\ PageFetchFailed =>
            /\ reqs[1].response = <<500>>
            /\ reqs[1].ret = <<>>
            /\ Len(reqs[1].seen) = reqs[1].page

\* The scan for the id 1 passed page 0 and returned Ann from page 1, which
\* holds Ann and Bob, both with the id 1.
C24_Witness ==
    /\ reqs[1].response = <<200>>
    /\ reqs[1].page = 1
    /\ served(1) = <<[id |-> 1, firstName |-> "Ann"], [id |-> 1, firstName |-> "Bob"]>>
    /\ reqs[1].ret = <<[id |-> 1, firstName |-> "Ann"]>>

\* C25: with an upstream that holds P non-empty pages and serves empty
\* ones beyond them the scan sends at most P + 1 page requests and comes
\* to an end; with an upstream that serves no empty page and no record
\* with the id the scan never ends in a result or in the 404: only a
\* failed fetch takes the handler out of the loop.
C25_ScanTerminates ==
    /\ [](~upstream.endless => PageRequests <= Len(upstream.book) + 1)
    /\ (~upstream.endless => <>(reqs[1].pc = "done"))
    /\ []((upstream.endless /\ \A n \in 0..MaxScan : ~HasId(served(n), reqs[1].id)) =>
              (reqs[1].pc = "done" => reqs[1].token = <<>> \/ PageFetchFailed))

\* The scan of two non-empty pages without the id 2 ended in 404 with its
\* third page request.
C25_Witness ==
    /\ ~upstream.endless
    /\ Len(upstream.book) = 2
    /\ reqs[1].response = <<404>>
    /\ PageRequests = 3
    /\ Len(upstream.log) = 3

\* The scan is still going on at the page it is cut off at, with an
\* upstream that serves no empty page.
C25_WitnessEndless ==
    /\ upstream.endless
    /\ reqs[1].pc = "fetch_wait"
    /\ reqs[1].page = MaxScan

\* The calls the upstream got from request r, told by their method: the
\* update sends a GET and a PATCH, the delete a DELETE.
CallsOf(r) ==
    { i \in DOMAIN upstream.log :
        \/ reqs[r].handler = "update_repair_order" /\ upstream.log[i].method \in {"GET", "PATCH"}
        \/ reqs[r].handler = "delete_repair_order" /\ upstream.log[i].method = "DELETE" }

\* get_access_token has not returned a token to request r.
NoTokenYet(r) ==
    reqs[r].pc \in {"idle", "token_wait"} \/ reqs[r].token = <<>>

\* Request r has sent no call to a resource of the upstream.
NoResourceCall(r) ==
    /\ reqs[r].bearer = <<>>
    /\ reqs[r].pc # "fetch_wait"
    /\ reqs[r].fetchRes = <<>>
    /\ CallsOf(r) = {}
    /\ reqs[r].handler = "get_open_repair_orders" => tasks = <<>>
    /\ "check" \in DOMAIN reqs[r] => reqs[r].check = <<>> /\ reqs[r].res = <<>>
    /\ "gets" \in DOMAIN reqs[r] => reqs[r].gets = 0

\* C23: a request sends no call to a resource of the upstream (first
\* fetch, existence check, PATCH, DELETE, hydration lookup) before its own
\* call of get_access_token has returned a token, and every such call it
\* sends carries as Bearer the token that this request was issued.
C23_TokenFirst ==
    \A r \in DOMAIN reqs :
        IF NoTokenYet(r)
        THEN NoResourceCall(r)
        ELSE /\ reqs[r].tokenRes # <<>>
             /\ reqs[r].token = reqs[r].tokenRes[1].access_token
             /\ \E i \in DOMAIN issued :
                    issued[i].to = r /\ reqs[r].token = <<issued[i].token>>
             /\ reqs[r].bearer = reqs[r].token
             /\ \A i \in CallsOf(r) : upstream.log[i].auth = reqs[r].token
             /\ reqs[r].handler = "get_open_repair_orders" =>
                    \A i \in DOMAIN tasks : tasks[i].headers = reqs[r].token

\* The upstream got the GET and the PATCH of the update with the token of
\* request 1 and the DELETE with the token of request 2, another one.
C23_Witness ==
    /\ Len(reqs) = 2
    /\ reqs[1].token # reqs[2].token
    /\ \E i, j, k \in DOMAIN upstream.log :
            /\ i < j
            /\ upstream.log[i].method = "GET" /\ upstream.log[i].auth = reqs[1].token
            /\ upstream.log[j].method = "PATCH" /\ upstream.log[j].auth = reqs[1].token
            /\ upstream.log[k].method = "DELETE" /\ upstream.log[k].auth = reqs[2].token

\* Both lookups of a repair order were sent with the token of the request.
C23_WitnessHydrate ==
    /\ reqs[1].handler = "get_open_repair_orders"
    /\ reqs[1].token # <<>>
    /\ \E i \in DOMAIN tasks :
            /\ tasks[i].vGets = 1 /\ tasks[i].cGets = 1
            /\ tasks[i].headers = reqs[1].token

====
